---- MODULE Spec2Model ----
(***************************************************************************)
(* Model of the recurrence and conflict engine of py_core:                 *)
(*   src/classes/meeting_class.py  (Meeting, meeting_conflict,             *)
(*                                  meetings_are_time_valid)               *)
(*   src/general.py, src/constants.py (weekday bitmask)                    *)
(*                                                                         *)
(* Conventions of the model                                                *)
(*   - a datetime.date is its day number, day 0 being a Monday, so that    *)
(*     date.weekday() is the day number modulo 7;                          *)
(*   - a datetime.time is the number of seconds since midnight             *)
(*     (time.min = 0); only small values are drawn;                        *)
(*   - datetime.combine(d, time.min).timestamp() is d * DaySeconds: the    *)
(*     process runs in a time zone without daylight-saving shifts, and the *)
(*     epoch is moved to day 0 (the code only compares and subtracts       *)
(*     timestamps);                                                        *)
(*   - the floats of meeting_conflict are exact here: every quotient the   *)
(*     code forms is a quotient of integers that divides evenly (checked   *)
(*     by QuotientsAreExact), so float division is integer division;       *)
(*   - Python's None is the empty tuple <<>> where a datetime is expected  *)
(*     and NoWeekday where a weekday int is expected.                      *)
(***************************************************************************)
EXTENDS Integers, Sequences, FiniteSets, TLC

VARIABLES
    op,        \* the operation under way: "Meeting", "meeting_conflict", "meetings_are_time_valid"
    pc,        \* "call" before the operation ran, "return" after
    values,    \* the keyword arguments given to Meeting(...)
    mt_1,      \* first argument of meeting_conflict
    mt_2,      \* second argument of meeting_conflict
    mt_list,   \* argument of meetings_are_time_valid
    detailed,  \* the detailed flag of the call
    ret,       \* what the operation returned or raised (merge: the list being scanned)
    merges,    \* the number of pairwise merges that merge has made
    criteria,  \* the CourseOptimizerCriteria whose course_eval is called
    course     \* the Course given to course_eval

vars == <<op, pc, values, mt_1, mt_2, mt_list, detailed, ret, merges, criteria, course>>

----------------------------------------------------------------------------
(* Bounds of the inputs. *)

\* times of day are drawn from 0..MaxTime
MaxTime == 2
\* dates are drawn from the weeks 0..MaxWeek
MaxWeek == 1
\* meetings_are_time_valid is called with lists of at most MaxLen meetings
MaxLen == 3
\* occurrence limits that are counts are drawn from 1..MaxCount
MaxCount == 3
\* weekdays that the drawn meetings select (Monday, Tuesday)
WeekdayInputs == {0, 1}

----------------------------------------------------------------------------
(* src/constants.py: one bit per weekday. *)

MONDAY    == 1
TUESDAY   == 2
WEDNESDAY == 4
THURSDAY  == 8
FRIDAY    == 16
SATURDAY  == 32
SUNDAY    == 64

WeekdayBits == <<MONDAY, TUESDAY, WEDNESDAY, THURSDAY, FRIDAY, SATURDAY, SUNDAY>>

\* value & bit, for a one-bit constant
BitAnd(value, bit) == IF (value \div bit) % 2 = 1 THEN bit ELSE 0

\* general.decode_days_of_week: the dict monday..sunday -> bool, keyed here
\* by the position 0..6 that enumerate(...values()) gives each entry
decode_days_of_week(value) ==
    [i \in 0..6 |-> BitAnd(value, WeekdayBits[i + 1]) # 0]

\* general.encode_weekday_ints: the mask of a collection of weekday ints
RECURSIVE encode_weekday_ints(_)
encode_weekday_ints(data) ==
    IF data = {} THEN 0
    ELSE LET i == CHOOSE j \in data : TRUE
         IN  WeekdayBits[i + 1] + encode_weekday_ints(data \ {i})

\* the elements of a list
Range(data) == {data[i] : i \in 1..Len(data)}

\* general.encode_days_of_week: each key that is true sets its bit
encode_days_of_week(data) ==
    (IF data[0] THEN MONDAY ELSE 0) + (IF data[1] THEN TUESDAY ELSE 0)
    + (IF data[2] THEN WEDNESDAY ELSE 0) + (IF data[3] THEN THURSDAY ELSE 0)
    + (IF data[4] THEN FRIDAY ELSE 0) + (IF data[5] THEN SATURDAY ELSE 0)
    + (IF data[6] THEN SUNDAY ELSE 0)

\* decode_weekday_ints that never appends 6
decode_weekday_ints_without_sunday(value) ==
    SelectSeq(<<0, 1, 2, 3, 4, 5>>, LAMBDA i : BitAnd(value, WeekdayBits[i + 1]) # 0)

\* general.decode_weekday_ints: appends 0, 1, .., 6 in this order, each when
\* its bit is set
decode_weekday_ints(value) ==
    SelectSeq(<<0, 1, 2, 3, 4, 5, 6>>, LAMBDA i : BitAnd(value, WeekdayBits[i + 1]) # 0)

----------------------------------------------------------------------------
(* Helpers of datetime. *)

None == <<>>
NoWeekday == 0 - 1
DaySeconds == 86400
time_min == 0

weekday(d) == d % 7
timestamp(d) == d * DaySeconds
\* datetime.combine(d, t) and datetime.fromtimestamp(y), as <<date, time>>
combine(d, t) == <<d, t>>
fromtimestamp(y) == <<y \div DaySeconds, y % DaySeconds>>

Min(S) == CHOOSE x \in S : \A y \in S : x <= y
Max(S) == CHOOSE x \in S : \A y \in S : x >= y

\* a / b for operands whose quotient is an integer
Quot(a, b) == IF b < 0 THEN (0 - a) \div (0 - b) ELSE a \div b

----------------------------------------------------------------------------
(* meeting_class.py: forward_weekday_target, backward_target_weekday. *)

\* forward_weekday_target that also shifts by a week when the base date
\* already has the target weekday
forward_weekday_target_next_week(target_weekday_int, base_date) ==
    LET target_delta_int == target_weekday_int - weekday(base_date)
    IN  base_date + (IF target_delta_int <= 0 THEN target_delta_int + 7 ELSE target_delta_int)

forward_weekday_target(target_weekday_int, base_date) ==
    LET target_delta_int == target_weekday_int - weekday(base_date)
    IN  base_date + (IF target_delta_int < 0 THEN target_delta_int + 7 ELSE target_delta_int)

\* backward_target_weekday that never shifts back by a week
backward_target_weekday_no_shift(target_weekday_int, base_date) ==
    LET target_delta_int == target_weekday_int - weekday(base_date)
    IN  base_date + target_delta_int

backward_target_weekday(target_weekday_int, base_date) ==
    LET target_delta_int == target_weekday_int - weekday(base_date)
    IN  base_date + (IF target_delta_int > 0 THEN target_delta_int - 7 ELSE target_delta_int)

----------------------------------------------------------------------------
(* meeting_class.py: class Meeting, its root validators.  Each validator    *)
(* gives "ok" or the exception it raises; pydantic runs every root          *)
(* validator and collects the failures into one ValidationError.           *)

allowed_repeat_timedelta_days == {0, 7, 14, 28, 56}

\* verify_valid_time with <= in place of <
verify_valid_time_nonstrict(v) ==
    IF ~(v.time_start <= v.time_end) THEN "ValueError" ELSE "ok"

verify_valid_time(v) ==
    IF ~(v.time_start < v.time_end) THEN "ValueError" ELSE "ok"

verify_valid_date(v) ==
    IF ~(v.date_start <= v.date_end) THEN "ValueError" ELSE "ok"

verify_allowed_repeat_timedelta_days(v) ==
    IF v.repeat_timedelta_days \notin allowed_repeat_timedelta_days THEN "ValueError" ELSE "ok"

\* weekday_int_check that does not look at the date window
weekday_int_check_without_window(v, weekday_int) ==
    IF v.repeat_timedelta_days = 0 /\ weekday(v.date_start) # weekday_int
    THEN "ValueError"
    ELSE IF weekday_int = NoWeekday THEN "TypeError" ELSE "ok"

\* the check of lines 82-90 for one weekday int
weekday_int_check(v, weekday_int) ==
    IF v.repeat_timedelta_days = 0 /\ weekday(v.date_start) # weekday_int
    THEN "ValueError"
    ELSE IF weekday_int = NoWeekday
         THEN "TypeError"      \* forward_weekday_target: None - int
         ELSE LET shifted_date == forward_weekday_target(weekday_int, v.date_start)
              IN  IF ~(v.date_start <= shifted_date /\ shifted_date <= v.date_end)
                  THEN "ValueError" ELSE "ok"

\* verify_valid_weekday_int with the weekday of date_start for weekday_int
verify_valid_weekday_int_of_date_start(v) ==
    weekday_int_check(v, weekday(v.date_start))

\* values.get("weekday_int"): Meeting declares no field of that name (the
\* field is days_of_week), so the lookup gives None
verify_valid_weekday_int(v) ==
    weekday_int_check(v, NoWeekday)

\* Meeting(**v): the validators in the order of their definition
MeetingErrors(v) ==
    SelectSeq(<< <<"verify_valid_time", verify_valid_time(v)>>,
                 <<"verify_valid_date", verify_valid_date(v)>>,
                 <<"verify_allowed_repeat_timedelta_days", verify_allowed_repeat_timedelta_days(v)>>,
                 <<"verify_valid_weekday_int", verify_valid_weekday_int(v)>> >>,
              LAMBDA e : e[2] # "ok")

NewMeeting(v) ==
    LET errors == MeetingErrors(v)
    IN  IF errors = <<>>
        THEN [tag |-> "Meeting", obj |-> v, errors |-> <<>>]
        ELSE [tag |-> "ValidationError", obj |-> None, errors |-> errors]

----------------------------------------------------------------------------
(* extended_meeting_class.py: class ExtendedMeeting(Meeting).  The root     *)
(* validators of Meeting run as well; the colour given is a valid one.      *)

\* verify_valid_seats_capacity_values without the test for 0
verify_valid_seats_capacity_values_zero_allowed(v) ==
    IF ~(v.seats_filled >= 0) THEN "ValueError"
    ELSE IF ~(v.max_capacity >= 0 - 1) THEN "ValueError"
    ELSE "ok"

verify_valid_seats_capacity_values(v) ==
    IF ~(v.seats_filled >= 0) THEN "ValueError"
    ELSE IF ~(v.max_capacity >= 0 - 1) \/ v.max_capacity = 0 THEN "ValueError"
    ELSE "ok"

\* ExtendedMeeting(**v)
ExtendedMeetingErrors(v) ==
    MeetingErrors(v)
    \o SelectSeq(<< <<"verify_valid_seats_capacity_values",
                      verify_valid_seats_capacity_values(v)>> >>,
                 LAMBDA e : e[2] # "ok")

NewExtendedMeeting(v) ==
    IF ExtendedMeetingErrors(v) = <<>>
    THEN [tag |-> "ExtendedMeeting", obj |-> v, errors |-> <<>>]
    ELSE [tag |-> "ValidationError", obj |-> None, errors |-> ExtendedMeetingErrors(v)]

----------------------------------------------------------------------------
(* meeting_class.py: methods of Meeting. *)

SelectedWeekdays(m) == {i \in 0..6 : decode_days_of_week(m.days_of_week)[i]}

get_actual_date_start(m) ==
    Min({forward_weekday_target(i, m.date_start) : i \in SelectedWeekdays(m)})

get_actual_date_end(m) ==
    Max({backward_target_weekday(i, m.date_end) : i \in SelectedWeekdays(m)})

\* num_actual_meetings that counts the weeks of the window for every meeting
num_actual_meetings_every_week(m) ==
    (get_actual_date_end(m) - get_actual_date_start(m)) \div 7 + 1

\* Meeting.num_actual_meetings
num_actual_meetings(m) ==
    IF m.repeat_timedelta_days > 0
    THEN (get_actual_date_end(m) - get_actual_date_start(m)) \div m.repeat_timedelta_days + 1
    ELSE 1

----------------------------------------------------------------------------
(* meeting_class.py: meeting_conflict.                                      *)

\* what a call gives back: the value of `return (flag, dt) if detailed else
\* flag`, or the exception that left the function
Ret(d, flag, dt) ==
    IF d THEN [tag |-> "tuple", flag |-> flag, dt |-> dt]
         ELSE [tag |-> "bool", flag |-> flag, dt |-> None]

Raise(exc) == [tag |-> exc, flag |-> FALSE, dt |-> None]

Raised(r) == r.tag \notin {"tuple", "bool"}

\* time_conflict with the end of the first meeting counted as part of it
time_conflict_closed(m1, m2) ==
    \/ (m1.time_start <= m2.time_start /\ m2.time_start <= m1.time_end)
    \/ (m1.time_start < m2.time_end /\ m2.time_end <= m1.time_end)
    \/ (m2.time_start <= m1.time_start /\ m1.time_start < m2.time_end)
    \/ (m2.time_start < m1.time_end /\ m1.time_end <= m2.time_end)

\* 1. Test for time conflict (lines 537-543)
time_conflict(m1, m2) ==
    LET mt_1_t_s == m1.time_start
        mt_1_t_e == m1.time_end
        mt_2_t_s == m2.time_start
        mt_2_t_e == m2.time_end
    IN  \/ (mt_1_t_s <= mt_2_t_s /\ mt_2_t_s < mt_1_t_e)
        \/ (mt_1_t_s < mt_2_t_e /\ mt_2_t_e <= mt_1_t_e)
        \/ (mt_2_t_s <= mt_1_t_s /\ mt_1_t_s < mt_2_t_e)
        \/ (mt_2_t_s < mt_1_t_e /\ mt_1_t_e <= mt_2_t_e)

\* the closure __is_valid_date_intersection of meeting_conflict
is_valid_date_intersection(m1, m2, poi_x, poi_y) ==
    LET r1 == m1.repeat_timedelta_days
        r2 == m2.repeat_timedelta_days
    IN  /\ (r1 = 0 \/ poi_x % r1 = 0)
        /\ (r2 = 0 \/ poi_x % r2 = 0)
        /\ LET ts_1 == IF r1 = 0 THEN timestamp(get_actual_date_start(m1))
                                 ELSE timestamp(get_actual_date_start(m1) + poi_x)
               ts_2 == IF r2 = 0 THEN timestamp(get_actual_date_start(m2))
                                 ELSE timestamp(get_actual_date_start(m2) + poi_x)
           IN  poi_y = ts_1 /\ ts_1 = ts_2

\* Lines with the stretch made only when the first meeting is the single one
Lines_first_only(m1, m2) ==
    LET s1 == get_actual_date_start(m1)
        e1 == get_actual_date_end(m1)
        s2 == get_actual_date_start(m2)
        e2 == get_actual_date_end(m2)
        stretch == m1.repeat_timedelta_days = 0 /\ s1 = e1
    IN  [x1 |-> 0, y1 |-> timestamp(s1),
         x2 |-> IF stretch THEN Max({0, e2 - s2}) ELSE e1 - s1, y2 |-> timestamp(e1),
         x3 |-> 0, y3 |-> timestamp(s2),
         x4 |-> e2 - s2, y4 |-> timestamp(e2)]

\* lines 552-584 on the actual dates of the two meetings: the two segments
\* (x1, y1)-(x2, y2) and (x3, y3)-(x4, y4), after a single-date meeting
\* without repeat was stretched to a horizontal line
Segments(r1, r2, s1, e1, s2, e2) ==
    LET y1 == timestamp(s1)
        y2 == timestamp(e1)
        y3 == timestamp(s2)
        y4 == timestamp(e2)
        stretch == (r1 = 0 /\ y1 = y2) \/ (r2 = 0 /\ y3 = y4)
    IN  [x1 |-> 0, y1 |-> y1,
         x2 |-> IF stretch /\ r1 = 0 THEN Max({0, e2 - s2}) ELSE e1 - s1, y2 |-> y2,
         x3 |-> 0, y3 |-> y3,
         x4 |-> IF stretch /\ r1 # 0 THEN Max({0, e1 - s1}) ELSE e2 - s2, y4 |-> y4]

Lines(m1, m2) ==
    Segments(m1.repeat_timedelta_days, m2.repeat_timedelta_days,
             get_actual_date_start(m1), get_actual_date_end(m1),
             get_actual_date_start(m2), get_actual_date_end(m2))

\* lines 589-627: the intersection of the two lines l
intersect_lines(m1, m2, l, d) ==
    IF l.x2 - l.x1 = 0 \/ l.x4 - l.x3 = 0
    THEN Raise("ZeroDivisionError")
    ELSE LET m_1 == Quot(l.y2 - l.y1, l.x2 - l.x1)
             b1 == l.y1 - m_1 * l.x1
             m_2 == Quot(l.y4 - l.y3, l.x4 - l.x3)
             b2 == l.y3 - m_2 * l.x3
         IN  IF m_1 = m_2
             THEN IF b1 = b2 THEN Ret(d, TRUE, None) ELSE Ret(d, FALSE, None)
             ELSE LET x == Quot(b2 - b1, m_1 - m_2)
                  IN  IF ~(\/ x < Min({l.x1, l.x2}) \/ x > Max({l.x1, l.x2})
                           \/ x < Min({l.x3, l.x4}) \/ x > Max({l.x3, l.x4}))
                      THEN LET y == l.y1 + Quot(l.y2 - l.y1, l.x2 - l.x1) * (x - l.x1)
                           IN  IF is_valid_date_intersection(m1, m2, x, y)
                               THEN Ret(d, TRUE, fromtimestamp(y))
                               ELSE Ret(d, FALSE, None)
                      ELSE Ret(d, FALSE, None)

line_conflict(m1, m2, d) == intersect_lines(m1, m2, Lines(m1, m2), d)

\* point_match_datetime with the time_start of the first meeting
point_match_datetime_first(m1, m2) ==
    combine(get_actual_date_start(m1), m1.time_start)

\* line 567: the datetime returned for two meetings without repeat
point_match_datetime(m1, m2) ==
    combine(get_actual_date_start(m1), Max({m1.time_start, m2.time_start}))

\* lines 560-574: two meetings without repeat conflict when both are the
\* same single date
point_conflict(m1, m2, l, d) ==
    IF l.y1 = l.y2 /\ l.y2 = l.y3 /\ l.y3 = l.y4
    THEN Ret(d, TRUE, point_match_datetime(m1, m2))
    ELSE Ret(d, FALSE, None)

meeting_conflict(m1, m2, d) ==
    IF ~time_conflict(m1, m2)
    THEN Ret(d, FALSE, None)
    ELSE IF m1.repeat_timedelta_days = 0 /\ m2.repeat_timedelta_days = 0
         THEN point_conflict(m1, m2, Lines(m1, m2), d)
         ELSE line_conflict(m1, m2, d)

----------------------------------------------------------------------------
(* meeting_class.py: meetings_are_time_valid.                               *)

\* the sort key of lines 367-371, compared as Python compares tuples
SortKey(m) == <<get_actual_date_start(m), m.time_start, m.time_end>>

KeyLess(a, b) ==
    \/ a[1] < b[1]
    \/ (a[1] = b[1] /\ a[2] < b[2])
    \/ (a[1] = b[1] /\ a[2] = b[2] /\ a[3] < b[3])

\* list.sort(key=...) is stable: an element goes behind every element that
\* came before it and whose key is not greater
InsertByKey(sorted, m) ==
    LET after == {i \in 1..Len(sorted) : KeyLess(SortKey(m), SortKey(sorted[i]))}
        at == IF after = {} THEN Len(sorted) + 1 ELSE Min(after)
    IN  SubSeq(sorted, 1, at - 1) \o <<m>> \o SubSeq(sorted, at, Len(sorted))

RECURSIVE SortDay(_)
SortDay(day) ==
    IF day = <<>> THEN <<>>
    ELSE InsertByKey(SortDay(SubSeq(day, 1, Len(day) - 1)), day[Len(day)])

\* WeekBucket that leaves the repeating meetings out
WeekBucket_single_only(l, i) ==
    SelectSeq(l, LAMBDA m : decode_days_of_week(m.days_of_week)[i]
                            /\ m.repeat_timedelta_days = 0)

\* lines 360-363: week[i] holds the meetings that select weekday i, in list order
WeekBucket(l, i) ==
    SelectSeq(l, LAMBDA m : decode_days_of_week(m.days_of_week)[i])

\* lines 373-376: meeting_conflict on each pair of neighbours of day
adjacent_results(day) ==
    [i \in 1..(Len(day) - 1) |-> meeting_conflict(day[i], day[i + 1], TRUE)]

\* first_conflict that takes the first pair compared for a conflict
first_conflict_any_pair(results, d) ==
    IF DOMAIN results = {}
    THEN None
    ELSE IF Raised(results[1]) THEN results[1] ELSE Ret(d, FALSE, results[1].dt)

\* lines 377-381: the first pair that conflicts (or whose comparison raises)
\* ends the call; None when the loop runs through
first_conflict(results, d) ==
    LET hits == {i \in DOMAIN results : Raised(results[i]) \/ results[i].flag}
    IN  IF hits = {}
        THEN None
        ELSE IF Raised(results[Min(hits)])
             THEN results[Min(hits)]
             ELSE Ret(d, FALSE, results[Min(hits)].dt)

\* lines 366-372: a day of three or more meetings is sorted first
day_order(bucket) == IF Len(bucket) >= 3 THEN SortDay(bucket) ELSE bucket

\* lines 366-381 for one weekday
CheckDay(bucket, d) ==
    IF Len(bucket) < 2 THEN None
    ELSE first_conflict(adjacent_results(day_order(bucket)), d)

\* first_ended that lets the last weekday that ends the call decide
first_ended_last_day(outs, d) ==
    LET ended == {i \in DOMAIN outs : outs[i] # None}
    IN  IF ended = {} THEN Ret(d, TRUE, None) ELSE outs[Max(ended)]

\* line 365: the weekdays are gone through in order, the first that ends the
\* call decides
first_ended(outs, d) ==
    LET ended == {i \in DOMAIN outs : outs[i] # None}
    IN  IF ended = {} THEN Ret(d, TRUE, None) ELSE outs[Min(ended)]

\* the caller's list after a call that sorts mt_list itself
mt_list_sorted_in_place(l) == SortDay(l)

\* the caller's list after the call: the function appends to and sorts the
\* lists of week, which it creates (line 357); it assigns to no element of
\* mt_list and to no attribute of a meeting
mt_list_on_return(l) == l

meetings_are_time_valid(l, d) ==
    IF Len(l) <= 1
    THEN Ret(d, TRUE, None)
    ELSE first_ended([i \in 0..6 |-> CheckDay(WeekBucket(l, i), d)], d)

----------------------------------------------------------------------------
(* optimizer_criteria_class.py: CourseOptimizerCriteria.course_eval.        *)
(* An Optional value is None or Some(v).  The floats are exact here: every  *)
(* weight drawn is a multiple of 0.25 and is held as its number of          *)
(* quarters, so that the rating is a number of quarters, the multiplier     *)
(* 1 + 0.25 k is the 4 + k quarters, and the score returned is a number of  *)
(* sixteenths.                                                              *)

Some(v) == <<v>>
TheValue(o) == o[1]

\* sum(...) and the repeated +=
RECURSIVE sum(_)
sum(q) == IF q = <<>> THEN 0 ELSE Head(q) + sum(Tail(q))

\* Course.num_actual_meetings
course_num_actual_meetings(c) ==
    sum([i \in 1..Len(c.class_time) |-> num_actual_meetings(c.class_time[i])])

\* `sub[0] in mt.decode_days_of_week().values()`: the values are the seven
\* booleans, and Python's `in` compares with ==, where False == 0 and True == 1
in_decoded_values(weekday_int, days_of_week) ==
    \E i \in 0..6 :
        (IF decode_days_of_week(days_of_week)[i] THEN 1 ELSE 0) = weekday_int

\* lines 92-94, for sub = [weekday_int, time_start, time_end]
window_matches(sub, mt) ==
    /\ in_decoded_values(sub[1], mt.days_of_week)
    /\ \/ (sub[2] <= mt.time_start /\ mt.time_start <= sub[3])
       \/ (sub[2] <= mt.time_end /\ mt.time_end <= sub[3])

\* lines 90-98: what one window adds to the rating
window_rating(sub, class_time, weight) ==
    sum([i \in 1..Len(class_time) |->
            IF window_matches(sub, class_time[i])
            THEN num_actual_meetings(class_time[i]) * weight ELSE 0])

\* the guards of lines 88, 99, 111, 117
available_times_on(self) == self.available_times # <<>> /\ self.available_times_weight > 0
is_virtual_on(self) == self.is_virtual # None /\ self.is_virtual_weight > 0
high_prof_rating_on(self) == self.high_prof_rating # None /\ self.high_prof_rating_weight > 0
min_seats_open_on(self) == self.min_seats_open # None /\ self.min_seats_open_weight > 0

\* the guard of line 121
max_capacity_on(self) == self.max_capacity # None /\ TheValue(self.max_capacity) > 0

\* the inner conditions of lines 100, 112, 118, 122
is_virtual_met(self, c) == is_virtual_on(self) /\ self.is_virtual = Some(c.is_virtual)
high_prof_rating_met(self, c) == high_prof_rating_on(self) /\ TheValue(self.high_prof_rating)
min_seats_open_met(self, c) ==
    /\ min_seats_open_on(self)
    /\ TheValue(self.min_seats_open) <= c.maximum_enrollment - c.current_enrollment
max_capacity_met(self, c) ==
    max_capacity_on(self) /\ TheValue(self.max_capacity) >= c.maximum_enrollment

\* line 113 raises TypeError when an instructor has no rating (int + None)
sum_raises(self, c) ==
    /\ high_prof_rating_met(self, c)
    /\ \E i \in 1..Len(c.instructors) : c.instructors[i] = None

instructor_rating(c) == sum([i \in 1..Len(c.instructors) |-> TheValue(c.instructors[i])])

\* general_multiplier at line 125, in quarters
general_multiplier(self, c) ==
    4 + (IF available_times_on(self) THEN 1 ELSE 0)
      + (IF is_virtual_met(self, c) THEN 1 ELSE 0)
      + (IF high_prof_rating_met(self, c) THEN 1 ELSE 0)
      + (IF min_seats_open_met(self, c) THEN 1 ELSE 0)
      + (IF max_capacity_met(self, c) THEN 1 ELSE 0)

\* rating before line 125, in quarters
rating(self, c) ==
    (IF available_times_on(self)
     THEN sum([i \in 1..Len(self.available_times) |->
                  window_rating(self.available_times[i], c.class_time,
                                self.available_times_weight)])
     ELSE 0)
    + (IF is_virtual_met(self, c)
       THEN 10 * course_num_actual_meetings(c) * self.is_virtual_weight ELSE 0)
    + (IF high_prof_rating_met(self, c)
       THEN instructor_rating(c) * 100 * self.high_prof_rating_weight ELSE 0)
    + (IF min_seats_open_met(self, c) THEN 100 * self.min_seats_open_weight ELSE 0)
    + (IF max_capacity_met(self, c) THEN 100 * self.max_capacity_weight ELSE 0)

\* what course_eval gives back: the score in sixteenths, or the exception
Score(n) == [tag |-> "float", sixteenths |-> n]

course_eval(self, c) ==
    IF sum_raises(self, c)
    THEN [tag |-> "TypeError", sixteenths |-> 0]
    ELSE Score(rating(self, c) * general_multiplier(self, c))

----------------------------------------------------------------------------
(* The rule-based Meeting that the callers in src/ construct (course.py,   *)
(* event.py: occurrence_unit, occurrence_interval, occurrence_limit) and    *)
(* its expansion all_start_dates.  Their code is not among the source       *)
(* files; they follow sections 3 and 4.2 of the specification.  An absent   *)
(* interval is 0, an absent limit is NoLimit, an absent weekday set is the  *)
(* mask 0.                                                                  *)

NoLimit == [kind |-> "None", value |-> 0]
Count(n) == [kind |-> "Count", value |-> n]
Until(day) == [kind |-> "Until", value |-> day]

\* section 3: the invariants of a Meeting
IsRuleMeeting(m) ==
    /\ m.time_start < m.time_end
    /\ m.date_start <= m.date_end
    /\ (m.occurrence_unit = "None") = (m.occurrence_interval = 0)
    /\ (m.occurrence_unit # "None") => m.occurrence_interval >= 1
    /\ (m.occurrence_unit = "None") = (m.occurrence_limit = NoLimit)
    /\ (m.occurrence_limit.kind = "Count") => m.occurrence_limit.value >= 1
    /\ IF m.occurrence_unit = "Weekly"
       THEN m.days_of_week \in 1..127
       ELSE m.days_of_week = 0

\* the Monday of the week of a date
week_start(day) == day - weekday(day)

\* section 4.2, Daily and Weekly: the dates of the window date_start..date_end
\* that the rule selects
rule_dates(m) ==
    {day \in m.date_start..m.date_end :
        IF m.occurrence_unit = "Daily"
        THEN (day - m.date_start) % m.occurrence_interval = 0
        ELSE /\ decode_days_of_week(m.days_of_week)[weekday(day)]
             /\ ((week_start(day) - week_start(m.date_start)) \div 7)
                    % m.occurrence_interval = 0}

\* a finite set of dates as the sequence of its elements in increasing order
in_order(S) ==
    [i \in 1..Cardinality(S) |-> CHOOSE x \in S : Cardinality({y \in S : y < x}) = i - 1]

\* apply_limit whose count limit keeps one date too many
apply_limit_off_by_one(dates, limit) ==
    IF limit.kind = "Count"
    THEN SubSeq(dates, 1, Min({Len(dates), limit.value + 1}))
    ELSE SelectSeq(dates, LAMBDA day : day <= limit.value)

\* section 4.2: the limit ends the expansion
apply_limit(dates, limit) ==
    IF limit.kind = "Count"
    THEN SubSeq(dates, 1, Min({Len(dates), limit.value}))
    ELSE SelectSeq(dates, LAMBDA day : day <= limit.value)

\* section 4.2: all_start_dates(meeting)
all_start_dates(m) ==
    IF m.occurrence_unit = "None"
    THEN <<m.date_start>>
    ELSE apply_limit(in_order(rule_dates(m)), m.occurrence_limit)

----------------------------------------------------------------------------
(* merge (course_class.merge_course_meeting_occurrences, called by          *)
(* course.get_courses_via on every course): its code is not among the       *)
(* source files; it follows section 4.4 of the specification.               *)

\* the fields two meetings must share to be merged
merge_key(m) ==
    <<m.time_start, m.time_end, m.occurrence_interval, m.occurrence_limit, m.location>>

mergeable(a, b) ==
    /\ a.occurrence_unit = "Weekly" /\ b.occurrence_unit = "Weekly"
    /\ merge_key(a) = merge_key(b)

\* the pairs of positions of l that can be merged
mergeable_pairs(l) ==
    {p \in (1..Len(l)) \X (1..Len(l)) : p[1] < p[2] /\ mergeable(l[p[1]], l[p[2]])}

\* days_union that keeps the weekdays common to both masks
days_common(x, y) ==
    encode_weekday_ints({i \in 0..6 : decode_days_of_week(x)[i] /\ decode_days_of_week(y)[i]})

\* the union of two weekday masks
days_union(x, y) ==
    encode_weekday_ints({i \in 0..6 : decode_days_of_week(x)[i] \/ decode_days_of_week(y)[i]})

\* the single meeting that replaces a and b
merged(a, b) == [a EXCEPT !.days_of_week = days_union(a.days_of_week, b.days_of_week)]

\* merge_at that keeps both meetings, each with the union
merge_at_keep_both(l, p) ==
    [i \in 1..Len(l) |->
        IF i \in {p[1], p[2]} THEN merged(l[p[1]], l[p[2]]) ELSE l[i]]

\* l with the pair p merged: the merged meeting takes the first one's place,
\* the second one goes
merge_at(l, p) ==
    [i \in 1..(Len(l) - 1) |->
        IF i = p[1] THEN merged(l[p[1]], l[p[2]])
        ELSE IF i < p[2] THEN l[i] ELSE l[i + 1]]

\* the first pair in scan order
first_pair(P) ==
    CHOOSE p \in P : \A q \in P : p[1] < q[1] \/ (p[1] = q[1] /\ p[2] <= q[2])

\* merge that stops after the first pairwise merge
merge_single_pass(l) ==
    IF mergeable_pairs(l) = {} THEN l ELSE merge_at(l, first_pair(mergeable_pairs(l)))

\* merge(meetings): scan and merge until no pair is left
RECURSIVE merge(_)
merge(l) ==
    IF mergeable_pairs(l) = {} THEN l
    ELSE merge(merge_at(l, first_pair(mergeable_pairs(l))))

----------------------------------------------------------------------------
(* The inputs. *)

Times == 0..MaxTime
Dates == {7 * w + i : w \in 0..MaxWeek, i \in WeekdayInputs}
MaskInputs == {encode_weekday_ints(S) : S \in (SUBSET WeekdayInputs) \ {{}}}
RepeatInputs == {0, 7, 14}

\* A Meeting that exists: its fields satisfy the validators of the class, the
\* weekday check holding for each weekday that days_of_week selects.  (The
\* field location plays no part in validation or in the conflict test.)
IsMeeting(m) ==
    /\ verify_valid_time(m) = "ok"
    /\ verify_valid_date(m) = "ok"
    /\ verify_allowed_repeat_timedelta_days(m) = "ok"
    /\ SelectedWeekdays(m) # {}
    /\ \A i \in SelectedWeekdays(m) : weekday_int_check(m, i) = "ok"

MeetingsOver(times, dates, masks, repeats) ==
    {m \in [time_start : times, time_end : times, days_of_week : masks,
            date_start : dates, date_end : dates, repeat_timedelta_days : repeats] :
        IsMeeting(m)}

\* arguments of meeting_conflict
Meetings == MeetingsOver(Times, Dates, MaskInputs, RepeatInputs)

\* elements of the lists given to meetings_are_time_valid: meetings of one
\* time slot whose window starts and ends on an occurrence
ListMeetings ==
    {m \in MeetingsOver({0, 1, 2}, {0, 1, 7}, MaskInputs, {0, 7}) :
        /\ m.time_end = m.time_start + 1
        /\ m.date_start = get_actual_date_start(m)
        /\ m.date_end = get_actual_date_end(m)}

\* the limits of a rule
RuleLimits == {NoLimit} \cup {Count(n) : n \in 1..MaxCount} \cup {Until(day) : day \in Dates}

\* rule-based meetings given to all_start_dates
ExpandMeetings ==
    {m \in [time_start : {0}, time_end : {1}, date_start : Dates, date_end : Dates,
            occurrence_unit : {"None", "Daily", "Weekly"}, occurrence_interval : 0..2,
            occurrence_limit : RuleLimits, days_of_week : {0} \cup MaskInputs,
            location : {"A"}] :
        IsRuleMeeting(m)}

\* a weekly meeting on Mondays, and the meetings given to merge: the same
\* on three weekdays, five that differ from it in one field of the key, one
\* daily and one that does not repeat
MergeBase ==
    [time_start |-> 1, time_end |-> 2, date_start |-> 0, date_end |-> 8,
     occurrence_unit |-> "Weekly", occurrence_interval |-> 1,
     occurrence_limit |-> Count(2), days_of_week |-> MONDAY, location |-> "A"]

MergeMeetings ==
    {[MergeBase EXCEPT !.days_of_week = d] : d \in {MONDAY, TUESDAY, WEDNESDAY}}
    \cup {[MergeBase EXCEPT !.days_of_week = TUESDAY, !.time_start = 0],
          [MergeBase EXCEPT !.days_of_week = TUESDAY, !.time_end = 3],
          [MergeBase EXCEPT !.days_of_week = TUESDAY, !.occurrence_interval = 2],
          [MergeBase EXCEPT !.days_of_week = TUESDAY, !.occurrence_limit = Until(8)],
          [MergeBase EXCEPT !.days_of_week = TUESDAY, !.location = "B"],
          [MergeBase EXCEPT !.days_of_week = 0, !.occurrence_unit = "Daily"],
          [MergeBase EXCEPT !.days_of_week = 0, !.occurrence_unit = "None",
                            !.occurrence_interval = 0, !.occurrence_limit = NoLimit]}

\* arguments of the weekday helpers: every mask of seven bits, every dict
\* monday..sunday -> bool, the lists of at most MaxLen weekday ints
WeekdayMasks == 0..(SUNDAY + SUNDAY - 1)
WeekdayDicts == [0..6 -> BOOLEAN]
WeekdayLists == UNION {[1..n -> 0..6] : n \in 0..MaxLen}

\* arguments of forward_weekday_target and backward_target_weekday: every
\* weekday, the dates of the drawn weeks and of the two weeks after them
TargetInputs ==
    [target_weekday_int : 0..6, base_date : 0..(7 * (MaxWeek + 2) + 6)]

\* keyword arguments of ExtendedMeeting(...), valid or not
ExtendedRawValues ==
    [time_start : {0}, time_end : {0, 1}, days_of_week : {MONDAY},
     date_start : {0}, date_end : {0, 7}, repeat_timedelta_days : {0, 7},
     seats_filled : {0 - 1, 0, 1, 3}, max_capacity : {0 - 2, 0 - 1, 0, 1, 2}]

\* the criteria given to course_eval: each criterion unset, set with weight
\* 0, or set with weight 0.5 (2 quarters); windows are [weekday_int,
\* time_start, time_end]
AvailableTimesInputs ==
    {<< <<>>, 0 >>,
     << << <<0, 0, 0>> >>, 0 >>,
     << << <<0, 0, 0>> >>, 2 >>,
     << << <<1, 2, 2>> >>, 2 >>,
     << << <<1, 0, 0>> >>, 2 >>,
     << << <<2, 0, 2>> >>, 2 >>,
     << << <<0, 0, 0>>, <<1, 2, 2>> >>, 2 >>}
IsVirtualInputs == {<<None, 0>>, <<Some(TRUE), 0>>, <<Some(TRUE), 2>>, <<Some(FALSE), 2>>}
HighProfRatingInputs == {<<None, 0>>, <<Some(TRUE), 0>>, <<Some(TRUE), 2>>, <<Some(FALSE), 2>>}
MinSeatsOpenInputs == {<<None, 0>>, <<Some(3), 0>>, <<Some(3), 2>>}
MaxCapacityInputs == {<<None, 0>>, <<Some(3), 0>>, <<Some(3), 2>>, <<Some(0), 2>>}

CriteriaInputs ==
    {[available_times |-> a[1], available_times_weight |-> a[2],
      is_virtual |-> v[1], is_virtual_weight |-> v[2],
      high_prof_rating |-> h[1], high_prof_rating_weight |-> h[2],
      min_seats_open |-> s[1], min_seats_open_weight |-> s[2],
      max_capacity |-> x[1], max_capacity_weight |-> x[2]] :
        a \in AvailableTimesInputs, v \in IsVirtualInputs, h \in HighProfRatingInputs,
        s \in MinSeatsOpenInputs, x \in MaxCapacityInputs}

\* the courses given to course_eval: a single Monday meeting and a weekly
\* Tuesday meeting of two weeks make up class_time
MondayOnce ==
    [time_start |-> 0, time_end |-> 1, days_of_week |-> MONDAY,
     date_start |-> 0, date_end |-> 0, repeat_timedelta_days |-> 0]
TuesdayWeekly ==
    [time_start |-> 1, time_end |-> 2, days_of_week |-> TUESDAY,
     date_start |-> 1, date_end |-> 8, repeat_timedelta_days |-> 7]

CourseInputs ==
    {[class_time |-> ct, is_virtual |-> v, instructors |-> ins,
      maximum_enrollment |-> e[1], current_enrollment |-> e[2]] :
        ct \in {<<>>, <<MondayOnce>>, <<TuesdayWeekly>>, <<MondayOnce, TuesdayWeekly>>},
        v \in BOOLEAN,
        ins \in {<<>>, <<Some(50)>>, <<Some(50), None>>},
        e \in {<<2, 0>>, <<5, 1>>, <<5, 5>>}}

\* keyword arguments of Meeting(...), valid or not
RawValues ==
    [time_start : Times, time_end : Times,
     days_of_week : MaskInputs \cup {0, SUNDAY + SUNDAY, SUNDAY + SUNDAY + MONDAY},
     date_start : Dates, date_end : Dates,
     repeat_timedelta_days : RepeatInputs \cup {r + 1 : r \in RepeatInputs}]

----------------------------------------------------------------------------
(* The state machine: an operation is called on drawn arguments and returns. *)

InitMeeting ==
    /\ op = "Meeting" /\ pc = "call"
    /\ values \in RawValues
    /\ mt_1 = None /\ mt_2 = None /\ mt_list = <<>>
    /\ detailed = FALSE /\ ret = None /\ merges = 0
    /\ criteria = None /\ course = None

InitConflict ==
    /\ op = "meeting_conflict" /\ pc = "call"
    /\ mt_1 \in Meetings /\ mt_2 \in Meetings
    /\ values = None /\ mt_list = <<>>
    /\ detailed = FALSE /\ ret = None /\ merges = 0
    /\ criteria = None /\ course = None

InitList ==
    /\ op = "meetings_are_time_valid" /\ pc = "call"
    /\ mt_list = <<>>
    /\ values = None /\ mt_1 = None /\ mt_2 = None
    /\ detailed = FALSE /\ ret = None /\ merges = 0
    /\ criteria = None /\ course = None

\* a method of an existing Meeting is about to be called
InitMethod ==
    /\ op \in {"num_actual_meetings", "get_actual_date_start", "get_actual_date_end"}
    /\ pc = "call"
    /\ mt_1 \in Meetings
    /\ values = None /\ mt_2 = None /\ mt_list = <<>>
    /\ detailed = FALSE /\ ret = None /\ merges = 0
    /\ criteria = None /\ course = None

\* all_start_dates is about to be called on a rule-based meeting
InitExpand ==
    /\ op = "all_start_dates" /\ pc = "call"
    /\ mt_1 \in ExpandMeetings
    /\ values = None /\ mt_2 = None /\ mt_list = <<>>
    /\ detailed = FALSE /\ ret = None /\ merges = 0
    /\ criteria = None /\ course = None

\* the meetings of a course are being gathered for merge
InitMerge ==
    /\ op = "merge" /\ pc = "call"
    /\ mt_list = <<>>
    /\ values = None /\ mt_1 = None /\ mt_2 = None
    /\ detailed = FALSE /\ ret = None /\ merges = 0
    /\ criteria = None /\ course = None

\* course_eval is about to be called
InitCourseEval ==
    /\ op = "course_eval" /\ pc = "call"
    /\ criteria \in CriteriaInputs /\ course \in CourseInputs
    /\ values = None /\ mt_1 = None /\ mt_2 = None /\ mt_list = <<>>
    /\ detailed = FALSE /\ ret = None /\ merges = 0

\* ExtendedMeeting(...) is about to be called
InitExtendedMeeting ==
    /\ op = "ExtendedMeeting" /\ pc = "call"
    /\ values \in ExtendedRawValues
    /\ mt_1 = None /\ mt_2 = None /\ mt_list = <<>>
    /\ detailed = FALSE /\ ret = None /\ merges = 0
    /\ criteria = None /\ course = None

\* one of the helpers of general.py is about to be called on values
InitWeekdayHelper ==
    /\ pc = "call"
    /\ \/ op = "encode_weekday_ints" /\ values \in WeekdayLists
       \/ op = "decode_weekday_ints" /\ values \in WeekdayMasks
       \/ op = "encode_days_of_week" /\ values \in WeekdayDicts
       \/ op = "decode_days_of_week" /\ values \in WeekdayMasks
    /\ mt_1 = None /\ mt_2 = None /\ mt_list = <<>>
    /\ detailed = FALSE /\ ret = None /\ merges = 0
    /\ criteria = None /\ course = None

\* forward_weekday_target or backward_target_weekday is about to be called
InitTarget ==
    /\ op \in {"forward_weekday_target", "backward_target_weekday"} /\ pc = "call"
    /\ values \in TargetInputs
    /\ mt_1 = None /\ mt_2 = None /\ mt_list = <<>>
    /\ detailed = FALSE /\ ret = None /\ merges = 0
    /\ criteria = None /\ course = None

Init == InitMeeting \/ InitConflict \/ InitList \/ InitMethod \/ InitExpand
        \/ InitMerge \/ InitCourseEval \/ InitExtendedMeeting
        \/ InitWeekdayHelper \/ InitTarget

\* Meeting(**values)
CallMeeting ==
    /\ op = "Meeting" /\ pc = "call"
    /\ ret' = NewMeeting(values)
    /\ pc' = "return"
    /\ UNCHANGED <<op, values, mt_1, mt_2, mt_list, detailed, merges, criteria, course>>

\* meeting_conflict(mt_1, mt_2, detailed=d)
CallConflict(d) ==
    /\ op = "meeting_conflict" /\ pc = "call"
    /\ detailed' = d
    /\ ret' = meeting_conflict(mt_1, mt_2, d)
    /\ pc' = "return"
    /\ UNCHANGED <<op, values, mt_1, mt_2, mt_list, merges, criteria, course>>

\* the caller puts one more meeting on the list
AppendMeeting(m) ==
    /\ op = "meetings_are_time_valid" /\ pc = "call"
    /\ Len(mt_list) < MaxLen
    /\ mt_list' = mt_list \o <<m>>
    /\ UNCHANGED <<op, pc, values, mt_1, mt_2, detailed, ret, merges, criteria, course>>

\* meetings_are_time_valid(mt_list, detailed=d)
CallValid(d) ==
    /\ op = "meetings_are_time_valid" /\ pc = "call"
    /\ detailed' = d
    /\ ret' = meetings_are_time_valid(mt_list, d)
    /\ mt_list' = mt_list_on_return(mt_list)
    /\ pc' = "return"
    /\ UNCHANGED <<op, values, mt_1, mt_2, merges, criteria, course>>

\* mt_1.get_actual_date_end()
CallGetActualDateEnd ==
    /\ op = "get_actual_date_end" /\ pc = "call"
    /\ ret' = get_actual_date_end(mt_1)
    /\ pc' = "return"
    /\ UNCHANGED <<op, values, mt_1, mt_2, mt_list, detailed, merges, criteria, course>>

\* mt_1.num_actual_meetings()
CallNumActualMeetings ==
    /\ op = "num_actual_meetings" /\ pc = "call"
    /\ ret' = num_actual_meetings(mt_1)
    /\ pc' = "return"
    /\ UNCHANGED <<op, values, mt_1, mt_2, mt_list, detailed, merges, criteria, course>>

\* mt_1.get_actual_date_start()
CallGetActualDateStart ==
    /\ op = "get_actual_date_start" /\ pc = "call"
    /\ ret' = get_actual_date_start(mt_1)
    /\ pc' = "return"
    /\ UNCHANGED <<op, values, mt_1, mt_2, mt_list, detailed, merges, criteria, course>>

\* all_start_dates(mt_1)
CallAllStartDates ==
    /\ op = "all_start_dates" /\ pc = "call"
    /\ ret' = all_start_dates(mt_1)
    /\ pc' = "return"
    /\ UNCHANGED <<op, values, mt_1, mt_2, mt_list, detailed, merges, criteria, course>>

\* the caller puts one more meeting on the list given to merge
AppendRuleMeeting(m) ==
    /\ op = "merge" /\ pc = "call"
    /\ Len(mt_list) < MaxLen
    /\ mt_list' = mt_list \o <<m>>
    /\ UNCHANGED <<op, pc, values, mt_1, mt_2, detailed, ret, merges, criteria, course>>

\* merge(mt_list) starts its scan
CallMerge ==
    /\ op = "merge" /\ pc = "call"
    /\ ret' = mt_list
    /\ pc' = "scan"
    /\ UNCHANGED <<op, values, mt_1, mt_2, mt_list, detailed, merges, criteria, course>>

\* one pair that shares the key is merged
MergeStep(p) ==
    /\ op = "merge" /\ pc = "scan"
    /\ p \in mergeable_pairs(ret)
    /\ ret' = merge_at(ret, p)
    /\ merges' = merges + 1
    /\ UNCHANGED <<op, pc, values, mt_1, mt_2, mt_list, detailed, criteria, course>>

\* no pair is left: the list is returned
MergeReturn ==
    /\ op = "merge" /\ pc = "scan"
    /\ mergeable_pairs(ret) = {}
    /\ pc' = "return"
    /\ UNCHANGED <<op, values, mt_1, mt_2, mt_list, detailed, ret, merges, criteria, course>>

\* criteria.course_eval(course)
CallCourseEval ==
    /\ op = "course_eval" /\ pc = "call"
    /\ ret' = course_eval(criteria, course)
    /\ pc' = "return"
    /\ UNCHANGED <<op, values, mt_1, mt_2, mt_list, detailed, merges, criteria, course>>

\* ExtendedMeeting(**values)
CallExtendedMeeting ==
    /\ op = "ExtendedMeeting" /\ pc = "call"
    /\ ret' = NewExtendedMeeting(values)
    /\ pc' = "return"
    /\ UNCHANGED <<op, values, mt_1, mt_2, mt_list, detailed, merges, criteria, course>>

\* general.encode_weekday_ints(values)
CallEncodeWeekdayInts ==
    /\ op = "encode_weekday_ints" /\ pc = "call"
    /\ ret' = encode_weekday_ints(Range(values))
    /\ pc' = "return"
    /\ UNCHANGED <<op, values, mt_1, mt_2, mt_list, detailed, merges, criteria, course>>

\* general.decode_weekday_ints(values)
CallDecodeWeekdayInts ==
    /\ op = "decode_weekday_ints" /\ pc = "call"
    /\ ret' = decode_weekday_ints(values)
    /\ pc' = "return"
    /\ UNCHANGED <<op, values, mt_1, mt_2, mt_list, detailed, merges, criteria, course>>

\* general.encode_days_of_week(values)
CallEncodeDaysOfWeek ==
    /\ op = "encode_days_of_week" /\ pc = "call"
    /\ ret' = encode_days_of_week(values)
    /\ pc' = "return"
    /\ UNCHANGED <<op, values, mt_1, mt_2, mt_list, detailed, merges, criteria, course>>

\* general.decode_days_of_week(values)
CallDecodeDaysOfWeek ==
    /\ op = "decode_days_of_week" /\ pc = "call"
    /\ ret' = decode_days_of_week(values)
    /\ pc' = "return"
    /\ UNCHANGED <<op, values, mt_1, mt_2, mt_list, detailed, merges, criteria, course>>

\* forward_weekday_target(**values)
CallForwardWeekdayTarget ==
    /\ op = "forward_weekday_target" /\ pc = "call"
    /\ ret' = forward_weekday_target(values.target_weekday_int, values.base_date)
    /\ pc' = "return"
    /\ UNCHANGED <<op, values, mt_1, mt_2, mt_list, detailed, merges, criteria, course>>

\* backward_target_weekday(**values)
CallBackwardTargetWeekday ==
    /\ op = "backward_target_weekday" /\ pc = "call"
    /\ ret' = backward_target_weekday(values.target_weekday_int, values.base_date)
    /\ pc' = "return"
    /\ UNCHANGED <<op, values, mt_1, mt_2, mt_list, detailed, merges, criteria, course>>

Next ==
    \/ CallMeeting
    \/ \E d \in BOOLEAN : CallConflict(d)
    \/ \E m \in ListMeetings : AppendMeeting(m)
    \/ \E d \in BOOLEAN : CallValid(d)
    \/ CallNumActualMeetings
    \/ CallGetActualDateStart
    \/ CallGetActualDateEnd
    \/ CallAllStartDates
    \/ \E m \in MergeMeetings : AppendRuleMeeting(m)
    \/ CallMerge
    \/ \E p \in (1..MaxLen) \X (1..MaxLen) : MergeStep(p)
    \/ MergeReturn
    \/ CallCourseEval
    \/ CallExtendedMeeting
    \/ CallEncodeWeekdayInts
    \/ CallDecodeWeekdayInts
    \/ CallEncodeDaysOfWeek
    \/ CallDecodeDaysOfWeek
    \/ CallForwardWeekdayTarget
    \/ CallBackwardTargetWeekday

Spec == Init /\ [][Next]_vars

----------------------------------------------------------------------------
(* Sanity of the model. *)

\* every quotient formed by meeting_conflict divides evenly
QuotientsAreExact ==
    (op = "meeting_conflict") =>
        LET l == Lines(mt_1, mt_2)
        IN  /\ (l.x2 # l.x1) => (l.y2 - l.y1) % (l.x2 - l.x1) = 0
            /\ (l.x4 # l.x3) => (l.y4 - l.y3) % (l.x4 - l.x3) = 0
            /\ (l.x2 # l.x1 /\ l.x4 # l.x3) =>
                  LET m_1 == Quot(l.y2 - l.y1, l.x2 - l.x1)
                      m_2 == Quot(l.y4 - l.y3, l.x4 - l.x3)
                      n == m_1 - m_2
                  IN  n # 0 => (l.y3 - l.y1) % (IF n < 0 THEN 0 - n ELSE n) = 0

----------------------------------------------------------------------------
(* Vocabulary of the claims. *)

Returned(o) == op = o /\ pc = "return"

Repeating(m) == m.repeat_timedelta_days > 0

\* the time-of-day intervals [time_start, time_end) share an instant
TimesOverlap(a, b) == a.time_start < b.time_end /\ b.time_start < a.time_end

\* the date windows date_start..date_end share a day
WindowsOverlap(a, b) == a.date_start <= b.date_end /\ b.date_start <= a.date_end

\* the dates on which a meeting takes place: the dates of its window whose
\* weekday it selects, every repeat_timedelta_days from the first such date
\* (only the first one when it does not repeat)
OccurrenceDates(m) ==
    {day \in m.date_start..m.date_end :
        /\ weekday(day) \in SelectedWeekdays(m)
        /\ LET first == forward_weekday_target(weekday(day), m.date_start)
           IN  IF Repeating(m) THEN (day - first) % m.repeat_timedelta_days = 0
                               ELSE day = first}

\* the first and the last actual date of a repeating meeting coincide
ZeroSpan(m) == Repeating(m) /\ get_actual_date_start(m) = get_actual_date_end(m)

\* some weekday is selected by both meetings
ShareWeekday(a, b) == SelectedWeekdays(a) \cap SelectedWeekdays(b) # {}

----------------------------------------------------------------------------
(* The claims. *)

\* C1: a Meeting that construction returns has time_start < time_end and
\* date_start <= date_end; an input that violates either ordering is rejected
\* with a ValidationError that carries the failure of the ordering's
\* validator, and no Meeting object is produced.
C1_ConstructionChecksOrderings ==
    Returned("Meeting") =>
        /\ ret.tag = "Meeting" =>
              /\ ret.obj.time_start < ret.obj.time_end
              /\ ret.obj.date_start <= ret.obj.date_end
        /\ ~(values.time_start < values.time_end) =>
              /\ ret.tag = "ValidationError" /\ ret.obj = None
              /\ \E i \in 1..Len(ret.errors) : ret.errors[i][1] = "verify_valid_time"
        /\ ~(values.date_start <= values.date_end) =>
              /\ ret.tag = "ValidationError" /\ ret.obj = None
              /\ \E i \in 1..Len(ret.errors) : ret.errors[i][1] = "verify_valid_date"
        /\ (values.time_start < values.time_end /\ values.date_start <= values.date_end) =>
              \A i \in 1..Len(ret.errors) :
                  ret.errors[i][1] \notin {"verify_valid_time", "verify_valid_date"}

\* C1 witness: an input with time_start >= time_end and one with
\* date_start > date_end were rejected.
C1_Witness ==
    /\ Returned("Meeting")
    /\ values.time_start >= values.time_end
    /\ values.date_start > values.date_end
    /\ ret.tag = "ValidationError"

\* C2 (as claimed): two meetings without repeat conflict exactly when their
\* time intervals overlap and their date windows overlap, meetings of several
\* days included.
C2_ConflictIffWindowsOverlap ==
    (Returned("meeting_conflict") /\ ~Repeating(mt_1) /\ ~Repeating(mt_2)) =>
        /\ ~Raised(ret)
        /\ ret.flag = (TimesOverlap(mt_1, mt_2) /\ WindowsOverlap(mt_1, mt_2))

\* C3: meeting_conflict(a, b, detailed) and meeting_conflict(b, a, detailed)
\* give the same outcome: the same boolean and the same conflict datetime (or
\* the same exception).
C3_ConflictIsSymmetric ==
    Returned("meeting_conflict") => ret = meeting_conflict(mt_2, mt_1, detailed)

\* C3 witness: a repeating and a single meeting that conflict, compared with
\* the conflict datetime asked for.
C3_Witness ==
    /\ Returned("meeting_conflict") /\ detailed
    /\ Repeating(mt_1) /\ ~Repeating(mt_2)
    /\ ret.tag = "tuple" /\ ret.flag /\ ret.dt # None

\* C4: when one meeting's time_end equals the other's time_start the two do
\* not conflict, whatever their dates (so in particular on the same date).
C4_TouchingIsNoConflict ==
    (/\ Returned("meeting_conflict")
     /\ (mt_1.time_end = mt_2.time_start \/ mt_2.time_end = mt_1.time_start)) =>
        /\ ~Raised(ret)
        /\ ~ret.flag
        /\ ret.dt = None

\* C4 witness: two meetings of the same single date, the second starting
\* when the first ends.
C4_Witness ==
    /\ Returned("meeting_conflict")
    /\ ~Repeating(mt_1) /\ ~Repeating(mt_2)
    /\ mt_1.date_start = mt_1.date_end /\ mt_2.date_start = mt_2.date_end
    /\ mt_1.date_start = mt_2.date_start
    /\ mt_1.time_end = mt_2.time_start
    /\ ~ret.flag

\* C5: with detailed=True, two conflicting meetings without repeat give the
\* datetime made of the later of the two start dates and the later of the two
\* time_start values; without conflict the datetime is None.
C5_DetailedGivesEarliestCommonInstant ==
    (Returned("meeting_conflict") /\ detailed /\ ~Raised(ret)) =>
        /\ (~Repeating(mt_1) /\ ~Repeating(mt_2) /\ ret.flag) =>
              ret.dt = <<Max({mt_1.date_start, mt_2.date_start}),
                         Max({mt_1.time_start, mt_2.time_start})>>
        /\ ~ret.flag => ret.dt = None

\* C5 witness: the same date, one meeting starting strictly inside the other.
C5_Witness ==
    /\ Returned("meeting_conflict") /\ detailed
    /\ ~Repeating(mt_1) /\ ~Repeating(mt_2)
    /\ mt_1.time_start < mt_2.time_start /\ mt_2.time_start < mt_1.time_end
    /\ ret.flag /\ ret.dt = <<mt_1.date_start, mt_2.time_start>>

\* C6 (as claimed): whenever meetings_are_time_valid returns, it reports a
\* conflict exactly when two distinct meetings of the list conflict according
\* to meeting_conflict.
C6_ListCheckIsFullPairwiseScan ==
    (Returned("meetings_are_time_valid") /\ ~Raised(ret)) =>
        (~ret.flag) =
            (\E i, j \in 1..Len(mt_list) :
                /\ i # j
                /\ LET c == meeting_conflict(mt_list[i], mt_list[j], TRUE)
                   IN  ~Raised(c) /\ c.flag)

\* C7 (as claimed): for a weekly meeting r and a single-day meeting s without
\* repeat whose times overlap, whenever the check returns it reports a
\* conflict exactly when the date of s is an occurrence date of r.
C7_WeeklyAgainstSingle ==
    (/\ Returned("meeting_conflict") /\ ~Raised(ret)
     /\ mt_1.repeat_timedelta_days = 7
     /\ ~Repeating(mt_2) /\ mt_2.date_start = mt_2.date_end
     /\ TimesOverlap(mt_1, mt_2)) =>
        ret.flag = (mt_2.date_start \in OccurrenceDates(mt_1))

\* C8 (as claimed): for two repeating meetings whose times overlap, whenever
\* the check returns it reports a conflict exactly when the meetings have an
\* occurrence date in common.
C8_RepeatingAgainstRepeating ==
    (/\ Returned("meeting_conflict") /\ ~Raised(ret)
     /\ Repeating(mt_1) /\ Repeating(mt_2)
     /\ TimesOverlap(mt_1, mt_2)) =>
        ret.flag = (OccurrenceDates(mt_1) \cap OccurrenceDates(mt_2) # {})

C10_NoErrorMidAlgorithm ==
    (Returned("meeting_conflict") \/ Returned("meetings_are_time_valid")) =>
        ~Raised(ret)

\* C11: the occurrence count of a weekly meeting is the number of dates of
\* its window whose weekday is selected in days_of_week, stepping by the
\* repeat interval (two selected weekdays over four weeks: 8).
C11_CountIsNumberOfOccurrenceDates ==
    (Returned("num_actual_meetings") /\ Repeating(mt_1)) =>
        ret = Cardinality(OccurrenceDates(mt_1))

\* C12: a meeting without repeat has exactly one occurrence, dated
\* date_start: num_actual_meetings gives 1 and get_actual_date_start gives
\* date_start.
C12_SingleOccurrenceAtDateStart ==
    /\ (Returned("num_actual_meetings") /\ ~Repeating(mt_1)) => ret = 1
    /\ (Returned("get_actual_date_start") /\ ~Repeating(mt_1)) =>
          /\ ret = mt_1.date_start
          /\ OccurrenceDates(mt_1) = {ret}

\* C12 witness: the actual start date of a meeting without repeat whose
\* window runs past its single date was asked for.
C12_Witness ==
    /\ Returned("get_actual_date_start")
    /\ ~Repeating(mt_1)
    /\ mt_1.date_start < mt_1.date_end
    /\ ret = mt_1.date_start

\* the sequence is strictly increasing
StrictlyIncreasing(q) == \A i, j \in 1..Len(q) : i < j => q[i] < q[j]

\* the call was all_start_dates on a repeating meeting limited by a count
CountLimited == Returned("all_start_dates") /\ mt_1.occurrence_limit.kind = "Count"

SameKey(l, i) == {j \in 1..Len(l) : mergeable(l[i], l[j])}

\* C14: merging is idempotent: the list that merge returns is merge of the
\* input whatever the order in which the pairs were taken, and merging it
\* again gives it back unchanged.
C14_MergeIsIdempotent ==
    Returned("merge") => (ret = merge(mt_list) /\ merge(ret) = ret)

\* C14 witness: a list of three meetings was merged in two steps.
C14_Witness ==
    /\ Returned("merge")
    /\ Len(mt_list) = 3 /\ merges = 2
    /\ merge(ret) = ret

\* C15: merge terminates: every pairwise merge takes one meeting off the
\* list, so there are at most (input length - 1) merges, and a non-empty
\* input never gives an empty output.
C15_MergeTerminates ==
    (op = "merge" /\ pc \in {"scan", "return"}) =>
        /\ Len(ret) + merges = Len(mt_list)
        /\ merges <= Max({0, Len(mt_list) - 1})
        /\ Len(mt_list) >= 1 => Len(ret) >= 1

\* C15 witness: the scan made its last possible merge and stands at a
\* list of one meeting.
C15_Witness ==
    /\ op = "merge" /\ pc = "scan"
    /\ Len(mt_list) >= 3
    /\ merges = Len(mt_list) - 1
    /\ Len(ret) = 1

\* C16: weekly meetings that share time_start, time_end, occurrence_interval,
\* occurrence_limit and location are replaced by a single meeting whose
\* days_of_week is the union of theirs; meetings that are not weekly and
\* weekly meetings that share their key with no other appear in the output
\* unmodified, and the output holds nothing else.
C16_MergeUnitesWeekdays ==
    Returned("merge") =>
        /\ \A i \in 1..Len(mt_list) :
              IF mt_list[i].occurrence_unit = "Weekly"
              THEN \E k \in 1..Len(ret) :
                      /\ {k2 \in 1..Len(ret) : mergeable(mt_list[i], ret[k2])} = {k}
                      /\ SelectedWeekdays(ret[k]) =
                            UNION {SelectedWeekdays(mt_list[j]) : j \in SameKey(mt_list, i)}
                      /\ SameKey(mt_list, i) = {i} => ret[k] = mt_list[i]
              ELSE Cardinality({k \in 1..Len(ret) : ret[k] = mt_list[i]})
                      = Cardinality({j \in 1..Len(mt_list) : mt_list[j] = mt_list[i]})
        /\ Len(ret) =
              Cardinality({i \in 1..Len(mt_list) :
                              \/ mt_list[i].occurrence_unit # "Weekly"
                              \/ \A j \in SameKey(mt_list, i) : i <= j})

\* C16 witness: Mondays merged with Wednesdays gave one meeting on Monday
\* and Wednesday, next to a meeting of another location left as it was.
C16_Witness ==
    /\ Returned("merge")
    /\ Len(mt_list) = 3 /\ Len(ret) = 2
    /\ mt_list[1].days_of_week = MONDAY /\ mt_list[2].location = "B"
    /\ mt_list[3].days_of_week = WEDNESDAY
    /\ ret[1] = [mt_list[1] EXCEPT !.days_of_week = MONDAY + WEDNESDAY]
    /\ ret[2] = mt_list[2]

\* the meetings given to merge satisfy the invariants of a Meeting
MergeMeetingsAreValid == \A m \in MergeMeetings : IsRuleMeeting(m)

\* the five criteria of course_eval, the weight of one, and the criteria with
\* the value of one unset
CriterionNames ==
    {"available_times", "is_virtual", "high_prof_rating", "min_seats_open", "max_capacity"}

weight_of(self, k) ==
    CASE k = "available_times" -> self.available_times_weight
      [] k = "is_virtual" -> self.is_virtual_weight
      [] k = "high_prof_rating" -> self.high_prof_rating_weight
      [] k = "min_seats_open" -> self.min_seats_open_weight
      [] k = "max_capacity" -> self.max_capacity_weight

unset(self, k) ==
    CASE k = "available_times" -> [self EXCEPT !.available_times = <<>>]
      [] k = "is_virtual" -> [self EXCEPT !.is_virtual = None]
      [] k = "high_prof_rating" -> [self EXCEPT !.high_prof_rating = None]
      [] k = "min_seats_open" -> [self EXCEPT !.min_seats_open = None]
      [] k = "max_capacity" -> [self EXCEPT !.max_capacity = None]

\* the window's weekday is one of the meeting's weekdays and the meeting's
\* time_start or time_end lies in the window
WindowFits(sub, mt) ==
    /\ sub[1] \in SelectedWeekdays(mt)
    /\ \/ (sub[2] <= mt.time_start /\ mt.time_start <= sub[3])
       \/ (sub[2] <= mt.time_end /\ mt.time_end <= sub[3])

\* the criteria that are set (value and weight > 0) and that the course
\* satisfies
SatisfiedCriteria(self, c) ==
    {k \in CriterionNames :
        /\ weight_of(self, k) > 0
        /\ CASE k = "available_times" ->
                  \E i \in 1..Len(self.available_times), j \in 1..Len(c.class_time) :
                      WindowFits(self.available_times[i], c.class_time[j])
             [] k = "is_virtual" ->
                  self.is_virtual # None /\ TheValue(self.is_virtual) = c.is_virtual
             [] k = "high_prof_rating" ->
                  self.high_prof_rating # None /\ TheValue(self.high_prof_rating)
             [] k = "min_seats_open" ->
                  /\ self.min_seats_open # None
                  /\ TheValue(self.min_seats_open) <= c.maximum_enrollment - c.current_enrollment
             [] k = "max_capacity" ->
                  /\ self.max_capacity # None
                  /\ TheValue(self.max_capacity) >= c.maximum_enrollment}

\* C17: a criterion counts only if its value is set and its weight is > 0:
\* for each of the five criteria, the score returned with that criterion's
\* weight at 0 is the score returned with that criterion's value unset,
\* whatever the other criteria are.
C17_ZeroWeightIsUnset ==
    Returned("course_eval") =>
        \A k \in CriterionNames :
            weight_of(criteria, k) = 0 => ret = course_eval(unset(criteria, k), course)

\* C18: the score is running_total x multiplier, the multiplier being 1.0
\* plus 0.25 for each criterion that the course satisfies, and nothing for a
\* criterion that is set but that no meeting of the course satisfies.
C18_MultiplierCountsSatisfiedCriteria ==
    (Returned("course_eval") /\ ret.tag = "float") =>
        ret.sixteenths =
            rating(criteria, course) * (4 + Cardinality(SatisfiedCriteria(criteria, course)))

\* the seat values are within their ranges
SeatsInRange(v) == v.seats_filled >= 0 /\ (v.max_capacity = 0 - 1 \/ v.max_capacity >= 1)

\* C19: an ExtendedMeeting that construction returns has seats_filled >= 0
\* and max_capacity either -1 or >= 1; max_capacity = 0 or < -1, or
\* seats_filled < 0, is rejected with a ValidationError that carries the
\* failure of the seats validator (which fails on no other input).
C19_ConstructionChecksSeats ==
    Returned("ExtendedMeeting") =>
        /\ ret.tag = "ExtendedMeeting" => SeatsInRange(ret.obj)
        /\ ~SeatsInRange(values) =>
              /\ ret.tag = "ValidationError" /\ ret.obj = None
              /\ \E i \in 1..Len(ret.errors) :
                    ret.errors[i][1] = "verify_valid_seats_capacity_values"
        /\ SeatsInRange(values) =>
              \A i \in 1..Len(ret.errors) :
                  ret.errors[i][1] # "verify_valid_seats_capacity_values"

\* C19 witness: an input with max_capacity = 0 and no other fault in its
\* seats was rejected.
C19_Witness ==
    /\ Returned("ExtendedMeeting")
    /\ values.max_capacity = 0 /\ values.seats_filled >= 0
    /\ ret.tag = "ValidationError"
    /\ \E i \in 1..Len(ret.errors) : ret.errors[i][1] = "verify_valid_seats_capacity_values"

\* the mask selects at least one weekday and has no bit above bit 6
MaskInRange(mask) ==
    /\ {i \in 0..6 : decode_days_of_week(mask)[i]} # {}
    /\ mask < SUNDAY + SUNDAY

BitSet(mask, i) == (mask \div WeekdayBits[i + 1]) % 2 = 1

\* C21: the weekday helpers round-trip.  Decoding a mask of 0..127 (to a
\* list of weekday ints or to a dict) and encoding the result gives the mask
\* back; encoding a list of ints of 0..6 and decoding the result gives the
\* ascending duplicate-free list of the list's elements; bit i stands for
\* weekday i in every helper.
C21_WeekdayHelpersRoundTrip ==
    /\ Returned("decode_weekday_ints") =>
          /\ encode_weekday_ints(Range(ret)) = values
          /\ \A i \in 0..6 : (i \in Range(ret)) <=> BitSet(values, i)
    /\ Returned("decode_days_of_week") =>
          /\ encode_days_of_week(ret) = values
          /\ \A i \in 0..6 : ret[i] <=> BitSet(values, i)
    /\ Returned("encode_weekday_ints") =>
          /\ StrictlyIncreasing(decode_weekday_ints(ret))
          /\ Range(decode_weekday_ints(ret)) = Range(values)
          /\ \A i \in 0..6 : (i \in Range(values)) <=> BitSet(ret, i)
    /\ Returned("encode_days_of_week") =>
          /\ decode_days_of_week(ret) = values
          /\ \A i \in 0..6 : values[i] <=> BitSet(ret, i)

\* C21 witness: a list out of order and with a repeated element (Sunday,
\* Monday, Sunday) was encoded, to the mask of Monday and Sunday.
C21_Witness ==
    /\ Returned("encode_weekday_ints")
    /\ values = <<6, 0, 6>>
    /\ ret = MONDAY + SUNDAY
    /\ decode_weekday_ints(ret) = <<0, 6>>

\* C22: forward_weekday_target(t, d) is the earliest date on or after d whose
\* weekday is t: the result r has weekday(r) = t and 0 <= r - d <= 6, and no
\* date of d..r-1 has the weekday t.
C22_ForwardTargetIsEarliest ==
    Returned("forward_weekday_target") =>
        /\ weekday(ret) = values.target_weekday_int
        /\ 0 <= ret - values.base_date /\ ret - values.base_date <= 6
        /\ \A x \in values.base_date..(ret - 1) : weekday(x) # values.target_weekday_int

\* C22 witness: the target weekday (Monday) lies before the base date's
\* weekday (Wednesday), so the result is in the following week.
C22_Witness ==
    /\ Returned("forward_weekday_target")
    /\ values.target_weekday_int = 0 /\ weekday(values.base_date) = 2
    /\ ret = values.base_date + 5

\* C23: backward_target_weekday(t, d) is the latest date on or before d whose
\* weekday is t: the result r has weekday(r) = t and 0 <= d - r <= 6, and no
\* date of r+1..d has the weekday t.
C23_BackwardTargetIsLatest ==
    Returned("backward_target_weekday") =>
        /\ weekday(ret) = values.target_weekday_int
        /\ 0 <= values.base_date - ret /\ values.base_date - ret <= 6
        /\ \A x \in (ret + 1)..values.base_date : weekday(x) # values.target_weekday_int

\* C23 witness: the target weekday (Friday) lies after the base date's
\* weekday (Wednesday), so the result is in the week before.
C23_Witness ==
    /\ Returned("backward_target_weekday")
    /\ values.target_weekday_int = 4 /\ weekday(values.base_date) = 2
    /\ ret = values.base_date - 5

\* C24: the conflict check has no side effect on its arguments: across the
\* call of meetings_are_time_valid or of meeting_conflict the list has the
\* same elements in the same order and every meeting the same field values.
C24_ConflictCheckKeepsItsInputs ==
    [][(op \in {"meetings_are_time_valid", "meeting_conflict"}
        /\ pc = "call" /\ pc' = "return")
       => (mt_list' = mt_list /\ mt_1' = mt_1 /\ mt_2' = mt_2)]_vars

\* C24 witness: meetings_are_time_valid returned on a list of three meetings
\* of one weekday that the sort of that day's bucket puts in another order.
C24_Witness ==
    /\ Returned("meetings_are_time_valid")
    /\ Len(mt_list) = 3
    /\ \E i \in 0..6 : /\ WeekBucket(mt_list, i) = mt_list
                       /\ SortDay(mt_list) # mt_list

\* the arrangements of a weekday's meetings in ascending order of the key
\* (actual start date, time_start, time_end); meetings of equal key may come
\* in either order
Ascending(q) ==
    \A k \in 1..(Len(q) - 1) : ~KeyLess(SortKey(q[k + 1]), SortKey(q[k]))

AscendingArrangements(bucket) ==
    {q \in {[k \in 1..Len(bucket) |-> bucket[p[k]]] :
               p \in {f \in [1..Len(bucket) -> 1..Len(bucket)] :
                         \A a, b \in 1..Len(bucket) : a # b => f[a] # f[b]}} :
        Ascending(q)}

\* neighbours k, k+1 of the arrangement conflict / do not conflict
ConflictAt(q, k) ==
    LET c == meeting_conflict(q[k], q[k + 1], TRUE) IN ~Raised(c) /\ c.flag

ClearAt(q, k) ==
    LET c == meeting_conflict(q[k], q[k + 1], TRUE) IN ~Raised(c) /\ ~c.flag

\* dt is the datetime of the first pair of neighbours of q that conflicts
FirstConflictIs(q, dt) ==
    \E k \in 1..(Len(q) - 1) :
        /\ ConflictAt(q, k)
        /\ meeting_conflict(q[k], q[k + 1], TRUE).dt = dt
        /\ \A j \in 1..(k - 1) : ClearAt(q, j)

\* C25: when meetings_are_time_valid(mt_list, detailed=True) reports a
\* conflict, its datetime is that of the first conflicting pair of
\* neighbours met when the weekdays are gone through from Monday to Sunday
\* and the meetings of a weekday in ascending (actual start date, time_start,
\* time_end) order: the weekdays before it have no conflicting neighbours,
\* and the pairs before it on its weekday do not conflict.
C25_DetailedReportsFirstConflict ==
    (/\ Returned("meetings_are_time_valid") /\ detailed
     /\ ~Raised(ret) /\ ~ret.flag) =>
        \E i \in 0..6 :
            /\ \A j \in 0..(i - 1) :
                  \E q \in AscendingArrangements(WeekBucket(mt_list, j)) :
                      \A k \in 1..(Len(q) - 1) : ClearAt(q, k)
            /\ \E q \in AscendingArrangements(WeekBucket(mt_list, i)) :
                  FirstConflictIs(q, ret.dt)

\* C25 witness: a list with conflicting neighbours on Monday and on Tuesday,
\* at different datetimes; the Monday one was reported.
C25_Witness ==
    /\ Returned("meetings_are_time_valid") /\ detailed
    /\ ~Raised(ret) /\ ~ret.flag
    /\ CheckDay(WeekBucket(mt_list, 0), TRUE) # None
    /\ CheckDay(WeekBucket(mt_list, 1), TRUE) # None
    /\ CheckDay(WeekBucket(mt_list, 0), TRUE) # CheckDay(WeekBucket(mt_list, 1), TRUE)
    /\ ret = CheckDay(WeekBucket(mt_list, 0), TRUE)

\* what the preferred time windows add to the rating when a window counts
\* for a meeting exactly if the meeting selects the window's weekday and its
\* time_start or time_end lies in the window: the meeting's
\* num_actual_meetings() times available_times_weight for each such pair
WindowsAddWhenFitting(self, c) ==
    sum([i \in 1..Len(self.available_times) |->
            sum([j \in 1..Len(c.class_time) |->
                    IF WindowFits(self.available_times[i], c.class_time[j])
                    THEN num_actual_meetings(c.class_time[j]) * self.available_times_weight
                    ELSE 0])])

\* what the windows add in course_eval
WindowsAdd(self, c) ==
    sum([i \in 1..Len(self.available_times) |->
            window_rating(self.available_times[i], c.class_time,
                          self.available_times_weight)])

\* C26 (as claimed): in course_eval a preferred time window adds to the score
\* for a meeting only if the meeting selects the window's weekday and its
\* time_start or time_end lies in the window, and then it adds the meeting's
\* occurrence count times available_times_weight: the score returned is the
\* one obtained with exactly these additions.
C26_WindowCountsOnItsWeekdayOnly ==
    (/\ Returned("course_eval") /\ ret.tag = "float"
     /\ available_times_on(criteria)) =>
        ret.sixteenths =
            (rating(criteria, course) - WindowsAdd(criteria, course)
             + WindowsAddWhenFitting(criteria, course))
            * general_multiplier(criteria, course)

\* C27: for a valid Meeting the first and the last actual date lie in the
\* date window and are in order, date_start <= get_actual_date_start() <=
\* get_actual_date_end() <= date_end, and num_actual_meetings() >= 1.
C27_ActualDatesInsideWindow ==
    /\ Returned("get_actual_date_start") =>
          /\ mt_1.date_start <= ret
          /\ ret <= get_actual_date_end(mt_1)
    /\ Returned("get_actual_date_end") =>
          /\ get_actual_date_start(mt_1) <= ret
          /\ ret <= mt_1.date_end
    /\ Returned("num_actual_meetings") => ret >= 1

\* C27 witness: a repeating meeting whose window starts before its first
\* occurrence and ends after its last one, so that both actual dates lie
\* strictly inside the window.
C27_Witness ==
    /\ Returned("get_actual_date_end")
    /\ Repeating(mt_1)
    /\ mt_1.date_start < get_actual_date_start(mt_1)
    /\ ret < mt_1.date_end

\* C28 (as claimed): construction accepts every input that satisfies the
\* stated invariants: with time_start < time_end, date_start <= date_end, an
\* allowed repeat_timedelta_days and a days_of_week whose weekdays match
\* date_start (no repeat) or fall inside the date window (repeat), no
\* validator raises and a Meeting with the given fields is returned.
C28_ConstructionAcceptsValidInput ==
    (Returned("Meeting") /\ IsMeeting(values)) =>
        /\ ret.tag = "Meeting"
        /\ ret.errors = <<>>
        /\ ret.obj = values

\* C29: meetings_are_time_valid reports no spurious conflict: when it
\* returns False, two meetings at different places of the list share a
\* weekday and meeting_conflict is true of them; a list of 0 or 1 meetings
\* is reported valid.
C29_NoSpuriousConflict ==
    Returned("meetings_are_time_valid") =>
        /\ (~Raised(ret) /\ ~ret.flag) =>
              \E i, j \in 1..Len(mt_list) :
                  /\ i # j
                  /\ ShareWeekday(mt_list[i], mt_list[j])
                  /\ ConflictAt(<<mt_list[i], mt_list[j]>>, 1)
        /\ Len(mt_list) <= 1 => ret = Ret(detailed, TRUE, None)

\* C29 witness: a list of three meetings was reported to conflict although
\* its first two meetings do not conflict with each other.
C29_Witness ==
    /\ Returned("meetings_are_time_valid")
    /\ Len(mt_list) = 3
    /\ ~Raised(ret) /\ ~ret.flag
    /\ ShareWeekday(mt_list[1], mt_list[2])
    /\ ClearAt(<<mt_list[1], mt_list[2]>>, 1)

\* the lists that hold the elements of l in another order
Reorderings(l) ==
    {[k \in 1..Len(l) |-> l[p[k]]] :
        p \in {f \in [1..Len(l) -> 1..Len(l)] :
                  \A a, b \in 1..Len(l) : a # b => f[a] # f[b]}}

\* C30 (as claimed): the boolean that meetings_are_time_valid returns does
\* not depend on the order of the list: every permutation of mt_list on which
\* the function returns gives the same boolean, lists with meetings of equal
\* (actual start date, time_start, time_end) included.
C30_ResultIgnoresListOrder ==
    (Returned("meetings_are_time_valid") /\ ~Raised(ret)) =>
        \A P \in Reorderings(mt_list) :
            ~Raised(meetings_are_time_valid(P, detailed))
                => meetings_are_time_valid(P, detailed).flag = ret.flag

====
